---- MODULE Spec2Model ----
(***************************************************************************)
(* Shopify collection weekly automation (shopify_collection_update.py).    *)
(*                                                                         *)
(* One process ("run") reads four settings from its environment, then      *)
(* issues blocking HTTP calls against the shop's REST API: collection      *)
(* metadata, recent products, collection members, one DELETE per listed    *)
(* member, one POST per recent product.  Each step of the model is one    *)
(* remote round trip together with all the local code that follows it up   *)
(* to the next remote call.                                                *)
(*                                                                         *)
(* The remote service is the environment.  A round trip ends in one of     *)
(* three ways, the three paths through each client method:                 *)
(*   "ok"              requests.<verb> returned and raise_for_status passed*)
(*   "http_error"      raise_for_status raised HTTPError (status >= 400)   *)
(*   "transport_error" requests.<verb> itself raised (connection, timeout) *)
(* On a transport error the request may or may not have reached the        *)
(* service.  Response bodies are JSON objects (json() returns a dict), the *)
(* products in a listing carry an 'id', and the member listing fits in one *)
(* page.  Timestamps, log lines and the printed report are not modelled.   *)
(***************************************************************************)
EXTENDS Integers, Sequences, FiniteSets, TLC

\* ------------------------------------------------------------------ bounds
NumProducts == 2      \* product ids are 1..NumProducts
MaxRecent == 2        \* longest recent-products listing the service returns

limit == 250          \* 'limit': 250 of get_new_products

Products == 1..NumProducts
Runs == {1, 2}

VARIABLES
    env,              \* the process environment: setting name -> value
    members,          \* the remote collection's membership (set of product ids)
    initial_members,  \* history: the membership before any run started
    calls,            \* history: the remote calls issued so far, in order
    run               \* per run: program position and local variables

vars == <<env, members, initial_members, calls, run>>

\* ------------------------------------------------------- python primitives
\* None, as a value that compares with dicts
None == [none |-> TRUE]

\* dict.get(key, default)
Get(d, key, default) == IF key \in DOMAIN d THEN d[key] ELSE default

\* a function returning v / raising e
Return(v) == [raised |-> FALSE, value |-> v]
Raise(e) == [raised |-> TRUE, error |-> e]

Min(a, b) == IF a <= b THEN a ELSE b

\* sequences over S of length 0..n
SeqsUpTo(S, n) == UNION {[1..k -> S] : k \in 0..n}

\* sequences enumerating the set S, each element once
RECURSIVE Orderings(_)
Orderings(S) ==
    IF S = {} THEN {<<>>}
    ELSE UNION {{<<x>> \o t : t \in Orderings(S \ {x})} : x \in S}

\* ---------------------------------------------------------- configuration
Settings == {"SHOPIFY_API_KEY", "SHOPIFY_PASSWORD", "SHOPIFY_SHOP_NAME", "COLLECTION_ID"}

\* os.getenv: None when the variable is not set (written Unset here, a value
\* that compares with strings), else the variable's string value
Unset == "<None>"
EnvValues == {Unset, "", "x"}

\* truthiness of an os.getenv result
Truthy(v) == v # Unset /\ v # ""

\* all([...]) mutated into any([...])
any_settings(e) == \E s \in Settings : Truthy(e[s])

\* all([self.api_key, self.password, self.shop_name, self.collection_id])
all_settings(e) == \A s \in Settings : Truthy(e[s])

\* ShopifyCollectionAutomation.__init__
init_automation(e) ==
    IF ~all_settings(e)
    THEN Raise("Missing required environment variables. Please check your .env file.")
    ELSE Return(e["COLLECTION_ID"])

\* ------------------------------------------------------ the remote service
\* The outcomes of one round trip.
Failures == {"http_error", "transport_error"}

\* a product as the listings return it
Product(p) == [id |-> p]

\* a JSON object without the key the client looks for
OtherBody == [errors |-> "x"]

\* GET /collections/{id}.json: the collection record, or an object without one
InfoResponses ==
    {[status |-> "ok", body |-> [collection |-> [id |-> "x", title |-> "New Arrivals"]]],
     [status |-> "ok", body |-> OtherBody]}
    \cup {[status |-> f, body |-> OtherBody] : f \in Failures}

\* GET /products.json?created_at_min=..&limit=250&status=active
\* (at most `limit` products, in the service's order, repetitions not excluded)
ProductsResponses ==
    {[status |-> "ok", body |-> [products |-> [k \in DOMAIN s |-> Product(s[k])]]] :
        s \in SeqsUpTo(Products, Min(MaxRecent, limit))}
    \cup {[status |-> "ok", body |-> OtherBody]}
    \cup {[status |-> f, body |-> OtherBody] : f \in Failures}

\* GET /collections/{id}/products.json: the members of a collection holding m,
\* in the service's order (the listing fits in one page)
MembersResponses(m) ==
    {[status |-> "ok", body |-> [products |-> [k \in DOMAIN s |-> Product(s[k])]]] :
        s \in Orderings(m)}
    \cup {[status |-> "ok", body |-> OtherBody]}
    \cup {[status |-> f, body |-> OtherBody] : f \in Failures}

\* DELETE /collections/{id}/products/{pid}.json and POST /collections/{id}/products.json:
\* a 2xx answer means the service applied the change, an error status that it
\* did not; when the transport fails the request may or may not have been applied.
WriteResponses ==
    {[status |-> "ok", applied |-> TRUE],
     [status |-> "http_error", applied |-> FALSE],
     [status |-> "transport_error", applied |-> FALSE],
     [status |-> "transport_error", applied |-> TRUE]}

\* ------------------------------------------------------ the catalog client
\* get_collection_info
get_collection_info(resp) ==
    IF resp.status = "ok"
    THEN Return(Get(resp.body, "collection", None))
    ELSE Return(None)

\* get_new_products letting the RequestException through
get_new_products_raise(resp) ==
    IF resp.status = "ok"
    THEN Return(Get(resp.body, "products", <<>>))
    ELSE Raise("RequestException")

\* get_new_products
get_new_products(resp) ==
    IF resp.status = "ok"
    THEN Return(Get(resp.body, "products", <<>>))
    ELSE Return(<<>>)

\* get_collection_products
get_collection_products(resp) ==
    IF resp.status = "ok"
    THEN Return(Get(resp.body, "products", <<>>))
    ELSE Return(<<>>)

\* remove_product_from_collection letting the RequestException through
remove_product_from_collection_raise(resp) ==
    IF resp.status = "ok" THEN Return(TRUE) ELSE Raise("RequestException")

\* remove_product_from_collection
remove_product_from_collection(resp) ==
    IF resp.status = "ok" THEN Return(TRUE) ELSE Return(FALSE)

\* add_product_to_collection
add_product_to_collection(resp) ==
    IF resp.status = "ok" THEN Return(TRUE) ELSE Return(FALSE)

\* ------------------------------------------------------------ the workflow
\* the locals of a run that has not started
NewRun(pc) ==
    [pc |-> pc, collection_id |-> Unset, collection_info |-> None,
     new_products |-> <<>>, current_products |-> <<>>, i |-> 0,
     success_count |-> 0, clear_success |-> FALSE,
     summary |-> None, exit_code |-> -1, error |-> ""]

\* main returning 0 whenever run_weekly_update returned
main_exit_zero(result) == 0

\* main: return 0 if result.get('success') else 1
main_exit(result) == IF Get(result, "success", FALSE) THEN 0 ELSE 1

\* main: run_weekly_update returned `result`
Returned(l, result) ==
    [l EXCEPT !.pc = "exit", !.summary = result, !.exit_code = main_exit(result)]

\* main: except Exception as e: ... return 1
Except(l, e) == [l EXCEPT !.pc = "exit", !.error = e, !.exit_code = 1]

\* not collection_info (an Optional[dict])
Absent(v) == v = None

\* not new_products / not current_products (lists)
Empty(v) == Len(v) = 0

\* the ids of a list of products, each id once (first occurrence kept)
RECURSIVE unique_ids(_)
unique_ids(products) ==
    IF Len(products) = 0 THEN <<>>
    ELSE LET rest == unique_ids(SubSeq(products, 1, Len(products) - 1))
             id == products[Len(products)].id
         IN  IF \E k \in DOMAIN rest : rest[k] = id THEN rest ELSE Append(rest, id)

\* product_ids deduplicated
product_ids_dedup(new_products) == unique_ids(new_products)

\* product_ids taking the position in the list for the id
product_ids_index(new_products) == [k \in DOMAIN new_products |-> k]

\* product_ids = [product['id'] for product in new_products]
product_ids(new_products) == [k \in DOMAIN new_products |-> new_products[k].id]

\* clear_collection: return success_count == len(current_products)
cleared(success_count, current_products) == success_count = Len(current_products)

\* run_weekly_update: the summary of a run whose collection could not be fetched
no_collection_summary ==
    [success |-> FALSE, error |-> "Could not fetch collection information"]

\* run_weekly_update: the summary of a run that found no new products
no_products_summary ==
    [success |-> TRUE, products_found |-> 0, products_added |-> 0,
     message |-> "No new products to add"]

\* run_weekly_update reporting success only when every product was added
update_summary_strict(collection_info, new_products, added_count, clear_success) ==
    [success |-> added_count = Len(new_products),
     collection_name |-> Get(collection_info, "title", "Unknown"),
     products_found |-> Len(new_products),
     products_added |-> added_count,
     collection_cleared |-> clear_success]

\* run_weekly_update: the summary of a run that cleared and repopulated
update_summary(collection_info, new_products, added_count, clear_success) ==
    [success |-> TRUE,
     collection_name |-> Get(collection_info, "title", "Unknown"),
     products_found |-> Len(new_products),
     products_added |-> added_count,
     collection_cleared |-> clear_success]

\* run_weekly_update going on without a collection record
AfterInfo_continue(l, ret) ==
    IF ret.raised THEN Except(l, ret.error)
    ELSE [l EXCEPT !.pc = "get_new_products", !.collection_info = ret.value]

\* run_weekly_update after get_collection_info returned
AfterInfo(l, ret) ==
    IF ret.raised THEN Except(l, ret.error)
    ELSE IF Absent(ret.value) THEN Returned(l, no_collection_summary)
    ELSE [l EXCEPT !.pc = "get_new_products", !.collection_info = ret.value]

\* run_weekly_update adding the new products before clearing the collection
AfterNewProducts_populate(l, ret) ==
    IF ret.raised THEN Except(l, ret.error)
    ELSE IF Empty(ret.value) THEN Returned(l, no_products_summary)
    ELSE [l EXCEPT !.pc = "add", !.new_products = ret.value, !.i = 1]

\* run_weekly_update clearing the collection although nothing is to be added
AfterNewProducts_clear(l, ret) ==
    IF ret.raised THEN Except(l, ret.error)
    ELSE [l EXCEPT !.pc = "get_collection_products", !.new_products = ret.value]

\* run_weekly_update after get_new_products returned
AfterNewProducts(l, ret) ==
    IF ret.raised THEN Except(l, ret.error)
    ELSE IF Empty(ret.value) THEN Returned(l, no_products_summary)
    ELSE [l EXCEPT !.pc = "get_collection_products", !.new_products = ret.value]

\* clear_collection reporting a failure of the run when it is handed no member
AfterMembers_fail(l, ret) ==
    IF ret.raised THEN Except(l, ret.error)
    ELSE IF Empty(ret.value)
    THEN Returned(l, [success |-> FALSE, error |-> "Could not list collection products"])
    ELSE [l EXCEPT !.pc = "remove", !.current_products = ret.value,
                   !.i = 1, !.success_count = 0]

\* clear_collection returning True without looking at the listing
AfterMembers_skip(l, ret) ==
    IF ret.raised THEN Except(l, ret.error)
    ELSE [l EXCEPT !.pc = "add", !.clear_success = TRUE, !.i = 1, !.success_count = 0]

\* clear_collection after get_collection_products returned; an empty listing
\* makes it return True, and run_weekly_update goes on to add_products_to_collection
AfterMembers(l, ret) ==
    IF ret.raised THEN Except(l, ret.error)
    ELSE IF Empty(ret.value)
    THEN [l EXCEPT !.pc = "add", !.clear_success = TRUE, !.i = 1, !.success_count = 0]
    ELSE [l EXCEPT !.pc = "remove", !.current_products = ret.value,
                   !.i = 1, !.success_count = 0]

\* clear_collection giving up, and the run with it, at the first failed removal
AfterRemove_abort(l, ret) ==
    IF ret.raised THEN Except(l, ret.error)
    ELSE IF ~ret.value THEN Returned(l, [success |-> FALSE, error |-> "clear failed"])
    ELSE IF l.i < Len(l.current_products)
         THEN [l EXCEPT !.i = l.i + 1, !.success_count = l.success_count + 1]
         ELSE [l EXCEPT !.pc = "add", !.i = 1, !.success_count = 0,
                        !.clear_success = TRUE]

\* clear_collection after remove_product_from_collection returned for
\* current_products[i]; after the last one it returns and
\* add_products_to_collection starts
AfterRemove(l, ret) ==
    IF ret.raised THEN Except(l, ret.error)
    ELSE LET count == IF ret.value THEN l.success_count + 1 ELSE l.success_count
         IN  IF l.i < Len(l.current_products)
             THEN [l EXCEPT !.i = l.i + 1, !.success_count = count]
             ELSE [l EXCEPT !.pc = "add", !.i = 1, !.success_count = 0,
                            !.clear_success = cleared(count, l.current_products)]

\* add_products_to_collection trying a product again until its add succeeds
AfterAdd_retry(l, ret) ==
    IF ret.raised THEN Except(l, ret.error)
    ELSE IF ~ret.value THEN l
    ELSE IF l.i < Len(product_ids(l.new_products))
         THEN [l EXCEPT !.i = l.i + 1, !.success_count = l.success_count + 1]
         ELSE Returned([l EXCEPT !.success_count = l.success_count + 1],
                       update_summary(l.collection_info, l.new_products,
                                      l.success_count + 1, l.clear_success))

\* add_products_to_collection counting every call, successful or not
AfterAdd_countall(l, ret) ==
    IF ret.raised THEN Except(l, ret.error)
    ELSE IF l.i < Len(product_ids(l.new_products))
         THEN [l EXCEPT !.i = l.i + 1, !.success_count = l.success_count + 1]
         ELSE Returned([l EXCEPT !.success_count = l.success_count + 1],
                       update_summary(l.collection_info, l.new_products,
                                      l.success_count + 1, l.clear_success))

\* add_products_to_collection after add_product_to_collection returned for
\* product_ids[i]; after the last one run_weekly_update returns its summary
AfterAdd(l, ret) ==
    IF ret.raised THEN Except(l, ret.error)
    ELSE LET count == IF ret.value THEN l.success_count + 1 ELSE l.success_count
         IN  IF l.i < Len(product_ids(l.new_products))
             THEN [l EXCEPT !.i = l.i + 1, !.success_count = count]
             ELSE Returned([l EXCEPT !.success_count = count],
                           update_summary(l.collection_info, l.new_products,
                                          count, l.clear_success))

\* a remote call as the history records it
Call(r, op, id, status, ret) ==
    [run |-> r, op |-> op, id |-> id, status |-> status, ret |-> ret]

\* ------------------------------------------------------------------ states
\* the runs in `started` are at the top of main, the others never start
InitWith(started) ==
    /\ env \in [Settings -> EnvValues]
    /\ members \in SUBSET Products
    /\ initial_members = members
    /\ calls = <<>>
    /\ run = [r \in Runs |-> IF r \in started THEN NewRun("main") ELSE NewRun("idle")]

Init == InitWith({1})

\* ----------------------------------------------------------------- actions
\* main: automation = ShopifyCollectionAutomation()
Construct(r) ==
    /\ run[r].pc = "main"
    /\ LET a == init_automation(env)
       IN  run' = [run EXCEPT ![r] =
                      IF a.raised THEN Except(@, a.error)
                      ELSE [@ EXCEPT !.pc = "get_collection_info",
                                     !.collection_id = a.value]]
    /\ UNCHANGED <<env, members, initial_members, calls>>

\* run_weekly_update: collection_info = self.get_collection_info(...)
FetchInfo(r) ==
    /\ run[r].pc = "get_collection_info"
    /\ \E resp \in InfoResponses :
          LET ret == get_collection_info(resp)
          IN  /\ calls' = Append(calls, Call(r, "get_collection_info", 0, resp.status, ret))
              /\ run' = [run EXCEPT ![r] = AfterInfo(@, ret)]
    /\ UNCHANGED <<env, members, initial_members>>

\* run_weekly_update: new_products = self.get_new_products(days_back=7)
FetchNewProducts(r) ==
    /\ run[r].pc = "get_new_products"
    /\ \E resp \in ProductsResponses :
          LET ret == get_new_products(resp)
          IN  /\ calls' = Append(calls, Call(r, "get_new_products", 0, resp.status, ret))
              /\ run' = [run EXCEPT ![r] = AfterNewProducts(@, ret)]
    /\ UNCHANGED <<env, members, initial_members>>

\* clear_collection: current_products = self.get_collection_products(...)
ListMembers(r) ==
    /\ run[r].pc = "get_collection_products"
    /\ \E resp \in MembersResponses(members) :
          LET ret == get_collection_products(resp)
          IN  /\ calls' = Append(calls, Call(r, "get_collection_products", 0, resp.status, ret))
              /\ run' = [run EXCEPT ![r] = AfterMembers(@, ret)]
    /\ UNCHANGED <<env, members, initial_members>>

\* clear_collection: one iteration of the loop over current_products
RemoveNext(r) ==
    /\ run[r].pc = "remove"
    /\ LET id == run[r].current_products[run[r].i].id
       IN  \E resp \in WriteResponses :
              LET ret == remove_product_from_collection(resp)
              IN  /\ members' = IF resp.applied THEN members \ {id} ELSE members
                  /\ calls' = Append(calls, Call(r, "remove", id, resp.status, ret))
                  /\ run' = [run EXCEPT ![r] = AfterRemove(@, ret)]
    /\ UNCHANGED <<env, initial_members>>

\* add_products_to_collection: one iteration of the loop over product_ids
AddNext(r) ==
    /\ run[r].pc = "add"
    /\ LET id == product_ids(run[r].new_products)[run[r].i]
       IN  \E resp \in WriteResponses :
              LET ret == add_product_to_collection(resp)
              IN  /\ members' = IF resp.applied THEN members \cup {id} ELSE members
                  /\ calls' = Append(calls, Call(r, "add", id, resp.status, ret))
                  /\ run' = [run EXCEPT ![r] = AfterAdd(@, ret)]
    /\ UNCHANGED <<env, initial_members>>

Step(r) ==
    \/ Construct(r)
    \/ FetchInfo(r)
    \/ FetchNewProducts(r)
    \/ ListMembers(r)
    \/ RemoveNext(r)
    \/ AddNext(r)

Next == \E r \in Runs : Step(r)

Spec == Init /\ [][Next]_vars

\* ------------------------------------------------------------ observations
\* the remote calls run r has issued, in order
CallsOf(r) == SelectSeq(calls, LAMBDA c : c.run = r)

\* those of one client operation
CallsOp(r, op) == SelectSeq(calls, LAMBDA c : c.run = r /\ c.op = op)

\* the product ids of a sequence of products or of calls
Ids(s) == {s[k].id : k \in DOMAIN s}
IdSeq(s) == [k \in DOMAIN s |-> s[k].id]

\* how many of the remove or add calls in s returned True
Successes(s) == Len(SelectSeq(s, LAMBDA c : ~c.ret.raised /\ c.ret.value))

\* main has returned
Exited(r) == run[r].pc = "exit"

\* run r has been handed its recent-products list
HasRecent(r) == Len(CallsOp(r, "get_new_products")) > 0

\* the recent-products list R handed to run r
Recent(r) == CallsOp(r, "get_new_products")[1].ret.value

\* run r has been handed the member listing
HasListing(r) == Len(CallsOp(r, "get_collection_products")) > 0

\* the member listing handed to run r
Listing(r) == CallsOp(r, "get_collection_products")[1].ret.value

\* run_weekly_update returned a summary with success = true
Succeeded(r) == Exited(r) /\ run[r].summary # None /\ Get(run[r].summary, "success", FALSE)

TypeOK ==
    /\ members \subseteq Products
    /\ \A r \in Runs : run[r].exit_code \in {-1, 0, 1}

\* ------------------------------------------------------------------ claims

C2_EmptyWindowIsNoOp ==
    \A r \in Runs :
        HasRecent(r) /\ Len(Recent(r)) = 0 =>
            /\ Exited(r)
            /\ \A op \in {"get_collection_products", "remove", "add"} :
                  Len(CallsOp(r, op)) = 0
            /\ members = initial_members
            /\ run[r].summary # None
            /\ Get(run[r].summary, "success", FALSE) = TRUE
            /\ Get(run[r].summary, "products_found", -1) = 0
            /\ Get(run[r].summary, "products_added", -1) = 0

\* the service answered the recent-products query with an empty list while the
\* collection held products, and the run is over
C2_Witness ==
    /\ HasRecent(1) /\ CallsOp(1, "get_new_products")[1].status = "ok"
    /\ Len(Recent(1)) = 0
    /\ initial_members = {1, 2}
    /\ Exited(1)

\* C3: if the collection-metadata fetch returns absence, the run issues no
\* further remote call, leaves the membership unchanged and returns a summary
\* with success = false and error = 'Could not fetch collection information'.
C3_NoCollectionIsFatal ==
    \A r \in Runs :
        (/\ Len(CallsOp(r, "get_collection_info")) > 0
         /\ Absent(CallsOp(r, "get_collection_info")[1].ret.value))
        => /\ Exited(r)
           /\ Len(CallsOf(r)) = 1
           /\ members = initial_members
           /\ run[r].summary # None
           /\ Get(run[r].summary, "success", TRUE) = FALSE
           /\ Get(run[r].summary, "error", "") = "Could not fetch collection information"

\* the metadata fetch failed while the collection held products, and the run is over
C3_Witness ==
    /\ Len(CallsOf(1)) > 0
    /\ CallsOf(1)[1].op = "get_collection_info" /\ CallsOf(1)[1].status = "http_error"
    /\ initial_members = {1, 2}
    /\ Exited(1)

\* C4: when the recent-products list R is non-empty, an add call is attempted
\* for every entry of R, in R's order, however many remove calls of the clear
\* pass failed.
C4_PopulateAfterAnyClear ==
    \A r \in Runs :
        Exited(r) /\ HasRecent(r) /\ Len(Recent(r)) > 0 =>
            IdSeq(CallsOp(r, "add")) = IdSeq(Recent(r))

\* every remove call of a two-member clear pass failed and both entries of R
\* were still attempted
C4_Witness ==
    /\ Exited(1) /\ HasRecent(1) /\ Len(Recent(1)) = 2
    /\ Len(CallsOp(1, "remove")) = 2 /\ Successes(CallsOp(1, "remove")) = 0
    /\ Len(CallsOp(1, "add")) = 2

\* C5 as stated: in every run that reaches the clear step, collection_cleared
\* is true exactly when the number of successful remove calls of the clear pass
\* equals the number of members the collection held before the pass.
C5_ClearedIffAllRemoved ==
    \A r \in Runs :
        run[r].summary # None /\ "collection_cleared" \in DOMAIN run[r].summary =>
            (run[r].summary.collection_cleared
                <=> Successes(CallsOp(r, "remove")) = Cardinality(initial_members))

\* C6: in every summary returned by run_weekly_update, products_added equals
\* the number of add calls of the run that returned success, products_found is
\* the length of the recent-products list, and 0 <= products_added <= products_found.
C6_AddedCountsSuccesses ==
    \A r \in Runs :
        run[r].summary # None =>
            LET added == Get(run[r].summary, "products_added", 0)
                found == Get(run[r].summary, "products_found", 0)
            IN  /\ added = Successes(CallsOp(r, "add"))
                /\ found = IF HasRecent(r) THEN Len(Recent(r)) ELSE 0
                /\ 0 <= added /\ added <= found

\* a run found two products, one add call succeeded and one failed
C6_Witness ==
    /\ run[1].summary # None
    /\ Get(run[1].summary, "products_found", 0) = 2
    /\ Get(run[1].summary, "products_added", 0) = 1
    /\ Len(CallsOp(1, "add")) = 2

\* C7: if any of the four required settings is missing or empty, the process
\* fails before any remote call is issued, changes no membership and exits
\* with code 1.
C7_MissingSettingFailsFirst ==
    \A r \in Runs :
        (\E s \in Settings : env[s] \in {Unset, ""}) =>
            /\ Len(CallsOf(r)) = 0
            /\ members = initial_members
            /\ run[r].pc \in {"idle", "main", "exit"}
            /\ Exited(r) => run[r].exit_code = 1 /\ run[r].error # "" /\ run[r].summary = None

\* the process has exited with one setting empty and the others set
C7_Witness ==
    /\ env["COLLECTION_ID"] = ""
    /\ \A s \in Settings \ {"COLLECTION_ID"} : env[s] = "x"
    /\ initial_members = {1, 2}
    /\ Exited(1)

\* C8: main returns 0 exactly when the run summary has success = true, and
\* returns 1 when the summary has success = false or when an exception escaped
\* configuration loading or the workflow.
C8_ExitCode ==
    \A r \in Runs :
        Exited(r) =>
            /\ run[r].exit_code \in {0, 1}
            /\ run[r].exit_code = 0 <=>
                  (run[r].summary # None /\ Get(run[r].summary, "success", FALSE) = TRUE)
            /\ run[r].error # "" => run[r].exit_code = 1 /\ run[r].summary = None

\* main returned 1 for a summary with success = false
C8_Witness ==
    /\ Exited(1) /\ run[1].exit_code = 1
    /\ run[1].summary = no_collection_summary

\* the result a client operation degrades to when its remote call fails: an
\* empty list for the two listings, False for remove and add, None for metadata
Degraded(c) ==
    /\ ~c.ret.raised
    /\ CASE c.op \in {"get_new_products", "get_collection_products"} -> Len(c.ret.value) = 0
         [] c.op \in {"remove", "add"} -> c.ret.value = FALSE
         [] c.op = "get_collection_info" -> c.ret.value = None

\* the call a step has issued, if it issued one
Issued == Len(calls') = Len(calls) + 1
LastCall == calls'[Len(calls')]

\* C9 as stated: each client operation converts any transport/HTTP failure of
\* its remote call into its degraded result and never propagates an exception
\* to the workflow; a failed remove or add leaves the membership as it was.
C9_FailedWriteChangesNothing ==
    [][Issued =>
        /\ LastCall.status \in Failures => Degraded(LastCall)
        /\ run'[LastCall.run].error = ""
        /\ (LastCall.op \in {"remove", "add"} /\ LastCall.status \in Failures)
              => members' = members]_vars

\* C9, amended: each client operation converts any transport/HTTP failure of its
\* remote call into its degraded result and never propagates an exception to
\* the workflow; a remove or add that the service rejects with an HTTP error
\* status leaves the membership as it was, and one that fails in transport
\* leaves it either as it was or as the request asked.
C9_FailuresDegrade ==
    [][Issued =>
        /\ LastCall.status \in Failures => Degraded(LastCall)
        /\ run'[LastCall.run].error = ""
        /\ (LastCall.op \in {"remove", "add"} /\ LastCall.status = "http_error")
              => members' = members
        /\ (LastCall.op = "remove" /\ LastCall.status = "transport_error")
              => members' \in {members, members \ {LastCall.id}}
        /\ (LastCall.op = "add" /\ LastCall.status = "transport_error")
              => members' \in {members, members \cup {LastCall.id}}]_vars

\* the service rejected the removal of a member: the client returned False,
\* the workflow went on and the membership is as it was
C9_Witness ==
    /\ Len(calls) > 0
    /\ LET c == calls[Len(calls)]
       IN  /\ c.op = "remove" /\ c.status = "http_error"
           /\ c.ret = Return(FALSE)
           /\ c.id \in members
           /\ run[c.run].error = "" /\ run[c.run].pc \in {"remove", "add"}
    /\ members = initial_members

\* C10: a run whose recent-products listing call fails ends exactly as a run
\* whose listing succeeds with zero products: summary success = true,
\* products_found = 0, products_added = 0, exit code 0, membership unchanged.
C10_FailedListingLooksEmpty ==
    \A r \in Runs :
        HasRecent(r) =>
            LET c == CallsOp(r, "get_new_products")[1]
            IN  (c.status \in Failures \/ (c.status = "ok" /\ Len(c.ret.value) = 0)) =>
                    /\ Exited(r)
                    /\ run[r].summary = no_products_summary
                    /\ run[r].exit_code = 0
                    /\ run[r].error = ""
                    /\ members = initial_members
                    /\ CallsOf(r)[Len(CallsOf(r))] = c

\* the recent-products listing call failed in transport and the run is over
C10_Witness ==
    /\ HasRecent(1)
    /\ CallsOp(1, "get_new_products")[1].status = "transport_error"
    /\ initial_members = {1}
    /\ Exited(1)

\* ---------------------------------------------------------- overlapping runs
\* Two processes started on the same collection (a scheduler firing twice),
\* with the settings in place.
InitOverlap ==
    /\ InitWith({1, 2})
    /\ \A s \in Settings : env[s] = "x"

\* A service that does what it is asked, whatever it answers: a member listing
\* holds the whole current membership, a product is no member after a remove
\* call for it and is a member after an add call for it.
WellBehaved ==
    Issued =>
        /\ LastCall.op = "get_collection_products" =>
              ~LastCall.ret.raised /\ Ids(LastCall.ret.value) = members
        /\ LastCall.op = "remove" => LastCall.id \notin members'
        /\ LastCall.op = "add" => LastCall.id \in members'

\* every call is answered with a 2xx status
AllAnswered == Issued => LastCall.status = "ok"

\* two overlapping runs against a service that answers every call and does
\* what it is asked
\* a run waiting until no other run is between its first and its last call
\* (a lock around the workflow)
StepOverlap_exclusive(r) ==
    /\ \A q \in Runs \ {r} : run[q].pc \in {"idle", "main", "exit"}
    /\ Step(r) /\ AllAnswered /\ WellBehaved

\* one step of run r against that service; nothing in main or
\* run_weekly_update looks at another run
StepOverlap(r) ==
    \/ Construct(r)
    \/ FetchInfo(r) /\ AllAnswered
    \/ FetchNewProducts(r) /\ AllAnswered
    \/ ListMembers(r) /\ AllAnswered /\ WellBehaved
    \/ RemoveNext(r) /\ AllAnswered /\ WellBehaved
    \/ AddNext(r) /\ AllAnswered /\ WellBehaved

NextOverlap == \E r \in Runs : StepOverlap(r)

SpecOverlap == InitOverlap /\ [][NextOverlap]_vars

\* the positions of the remove and add calls of run r in the history
Writes(r) == {k \in DOMAIN calls : calls[k].run = r /\ calls[k].op \in {"remove", "add"}}

\* C11: runs are not mutually excluded: a run that has started and not
\* finished can always take its next step, wherever the other run is, so the
\* remove and add calls of overlapping runs can interleave. (The interleaving
\* in which every call succeeds, both runs report success and the final
\* membership is neither run's recent-products set is C11_Witness.)
C11_NoMutualExclusion ==
    \A r \in Runs : run[r].pc \notin {"idle", "exit"} => ENABLED StepOverlap(r)

\* both runs reported success, every remote call succeeded, a write of run 2
\* fell between two writes of run 1, and the final membership is neither
\* run's recent-products set
C11_Witness ==
    /\ Succeeded(1) /\ Succeeded(2)
    /\ \A k \in DOMAIN calls : calls[k].status = "ok"
    /\ HasRecent(1) /\ HasRecent(2)
    /\ Len(Recent(1)) > 0 /\ Len(Recent(2)) > 0
    /\ \E i, k \in Writes(1) : \E j \in Writes(2) : i < j /\ j < k
    /\ members # Ids(Recent(1))
    /\ members # Ids(Recent(2))

\* C12: once the metadata fetch has returned a collection record and the
\* recent-products list is non-empty, the run reports success = true and exit
\* code 0 whatever the outcomes of the member listing, the remove calls and the
\* add calls, also when every add call fails.
C12_SuccessAfterNonEmptyWindow ==
    \A r \in Runs :
        Exited(r) /\ HasRecent(r) /\ Len(Recent(r)) > 0 =>
            /\ run[r].summary # None
            /\ Get(run[r].summary, "success", FALSE) = TRUE
            /\ run[r].exit_code = 0
            /\ run[r].error = ""

\* the member listing failed, every add call failed, and the run still
\* reported success with products_added = 0 and products_found = 2
C12_Witness ==
    /\ Exited(1) /\ run[1].exit_code = 0
    /\ HasListing(1) /\ CallsOp(1, "get_collection_products")[1].status \in Failures
    /\ Len(CallsOp(1, "add")) = 2 /\ Successes(CallsOp(1, "add")) = 0
    /\ Get(run[1].summary, "products_found", -1) = 2
    /\ Get(run[1].summary, "products_added", -1) = 0

\* the place of a client operation in the workflow
Rank(op) ==
    CASE op = "get_collection_info" -> 1
      [] op = "get_new_products" -> 2
      [] op = "get_collection_products" -> 3
      [] op = "remove" -> 4
      [] op = "add" -> 5

\* C13: within one run the remote calls are issued in a fixed order: metadata
\* fetch, recent-products listing, member listing, all remove calls, all add
\* calls; no remove or add call is issued before both listings have returned,
\* and no add call before the last remove call of the run has returned.
C13_CallOrder ==
    \A r \in Runs :
        LET cs == CallsOf(r)
        IN  /\ \A k \in DOMAIN cs :
                  /\ k = 1 => Rank(cs[k].op) = 1
                  /\ k > 1 =>
                        /\ Rank(cs[k - 1].op) <= Rank(cs[k].op)
                        /\ Rank(cs[k].op) <= Rank(cs[k - 1].op) + 1
                              \/ (cs[k - 1].op = "get_collection_products" /\ cs[k].op = "add")
                        /\ Rank(cs[k].op) <= 3 => Rank(cs[k - 1].op) < Rank(cs[k].op)
            /\ Len(CallsOp(r, "add")) > 0 =>
                  /\ HasRecent(r) /\ HasListing(r)
                  /\ Len(CallsOp(r, "remove")) = Len(Listing(r))
            /\ Len(CallsOp(r, "remove")) > 0 => HasRecent(r) /\ HasListing(r)

\* a run issued all five kinds of call: two removes, then two adds
C13_Witness ==
    /\ Exited(1)
    /\ Len(CallsOp(1, "remove")) = 2
    /\ Len(CallsOp(1, "add")) = 2
    /\ Len(CallsOf(1)) = 7

\* s is an initial part of t
IsPrefix(s, t) == Len(s) <= Len(t) /\ \A k \in DOMAIN s : s[k] = t[k]

\* how often id occurs in the sequence of ids s
Occurrences(s, id) == Cardinality({k \in DOMAIN s : s[k] = id})

\* C14: add calls are issued in exactly the order of the recent-products list,
\* with no sorting or deduplication: an id occurring k times in the list
\* receives k add calls, products_found counts it k times and products_added
\* counts each of its successful add calls.
C14_AddsFollowTheList ==
    \A r \in Runs :
        HasRecent(r) =>
            LET ids == IdSeq(Recent(r))
                adds == CallsOp(r, "add")
            IN  /\ IsPrefix(IdSeq(adds), ids)
                /\ Exited(r) /\ Len(ids) > 0 =>
                      /\ \A id \in Products :
                            Occurrences(IdSeq(adds), id) = Occurrences(ids, id)
                      /\ Get(run[r].summary, "products_found", -1) = Len(ids)
                      /\ Get(run[r].summary, "products_added", -1) =
                            Cardinality({k \in DOMAIN adds : adds[k].ret.value})

\* the list held product 1 twice: it received two add calls, both successful,
\* and was counted twice
C14_Witness ==
    /\ Exited(1) /\ HasRecent(1) /\ IdSeq(Recent(1)) = <<1, 1>>
    /\ IdSeq(CallsOp(1, "add")) = <<1, 1>>
    /\ Get(run[1].summary, "products_found", -1) = 2
    /\ Get(run[1].summary, "products_added", -1) = 2

\* the list held two products in descending order and was added in that order
C14_WitnessOrder ==
    /\ Exited(1) /\ HasRecent(1) /\ IdSeq(Recent(1)) = <<2, 1>>
    /\ IdSeq(CallsOp(1, "add")) = <<2, 1>>

\* ------------------------------------------------------------------ progress
\* Every remote call returns, with success or failure, and the process then
\* runs on to its next call: a run that can step does step.
Fairness == \A r \in Runs : WF_vars(Step(r))

SpecLive == Init /\ [][Next]_vars /\ Fairness

\* run_weekly_update has been entered by run r
Started(r) == run[r].pc \notin {"idle", "main"} /\ run[r].error = ""

\* the three ways run_weekly_update ends
EndedWithoutCollection(r) ==
    /\ run[r].summary = no_collection_summary
    /\ Len(CallsOf(r)) = 1 /\ Absent(CallsOf(r)[1].ret.value)
EndedWithoutProducts(r) ==
    /\ run[r].summary = no_products_summary
    /\ Len(CallsOf(r)) = 2 /\ Len(Recent(r)) = 0
EndedWithUpdate(r) ==
    /\ run[r].summary # None
    /\ "collection_cleared" \in DOMAIN run[r].summary
    /\ Get(run[r].summary, "success", FALSE) = TRUE
    /\ Len(CallsOp(r, "add")) = Len(Recent(r))

\* C15: provided every remote call eventually returns, every run eventually
\* terminates, in exactly one of three terminal outcomes: failure after the
\* metadata fetch, success with zero products found, success with a full summary
\* after the populate pass; the only outcome with a failure is metadata absence.
C15_RunsEndInOneOfThreeWays ==
    /\ \A r \in Runs : Started(r) ~> Exited(r)
    /\ [](\A r \in Runs :
            Started(r) /\ Exited(r) =>
                /\ Cardinality({w \in {"collection", "products", "update"} :
                        CASE w = "collection" -> EndedWithoutCollection(r)
                          [] w = "products" -> EndedWithoutProducts(r)
                          [] w = "update" -> EndedWithUpdate(r)}) = 1
                /\ run[r].exit_code = 1 <=> EndedWithoutCollection(r))

\* a run ended with a full summary after a failed listing and failed writes
C15_Witness ==
    /\ Started(1) /\ Exited(1) /\ EndedWithUpdate(1)
    /\ CallsOp(1, "get_collection_products")[1].status \in Failures
    /\ Successes(CallsOp(1, "add")) = 0
    /\ Len(CallsOp(1, "add")) = 2

\* C16: no remote call is retried: the metadata fetch, the recent-products
\* listing and the member listing are each issued at most once, each entry of
\* the member listing receives exactly one remove call and each entry of the
\* recent-products list exactly one add call, whether it succeeds or fails, and
\* a failed removal does not skip the removals of the remaining members.
C16_NoRetry ==
    \A r \in Runs :
        /\ \A op \in {"get_collection_info", "get_new_products", "get_collection_products"} :
              Len(CallsOp(r, op)) <= 1
        /\ HasListing(r) =>
              /\ IsPrefix(IdSeq(CallsOp(r, "remove")), IdSeq(Listing(r)))
              /\ run[r].pc \in {"add", "exit"} =>
                    Len(CallsOp(r, "remove")) = Len(Listing(r))
        /\ ~HasListing(r) => Len(CallsOp(r, "remove")) = 0
        /\ HasRecent(r) =>
              /\ Len(CallsOp(r, "add")) <= Len(Recent(r))
              /\ Exited(r) /\ Len(Recent(r)) > 0 =>
                    Len(CallsOp(r, "add")) = Len(Recent(r))
        /\ ~HasRecent(r) => Len(CallsOp(r, "add")) = 0

\* the first removal failed and the second member was still removed; the first
\* add failed and the run ended after one call per entry
C16_Witness ==
    /\ Exited(1)
    /\ Len(CallsOp(1, "remove")) = 2
    /\ CallsOp(1, "remove")[1].ret.value = FALSE
    /\ CallsOp(1, "remove")[2].ret.value = TRUE
    /\ Len(CallsOp(1, "add")) = 2 /\ Len(Recent(1)) = 2
    /\ CallsOp(1, "add")[1].ret.value = FALSE

\* C17 as stated: with no other run, whenever the summary reports
\* collection_cleared = true and products_added = products_found > 0, the
\* membership at the end of the run equals the set of product ids in the
\* recent-products list.
C17_ClearedAndAddedMeansReplaced ==
    \A r \in Runs :
        (/\ Exited(r) /\ run[r].summary # None
         /\ Get(run[r].summary, "collection_cleared", FALSE) = TRUE
         /\ Get(run[r].summary, "products_found", 0) > 0
         /\ Get(run[r].summary, "products_added", 0) = Get(run[r].summary, "products_found", 0))
        => members = Ids(Recent(r))

\* the recent-products lists the runs have been handed
AllRecent == UNION {IF HasRecent(r) THEN Ids(Recent(r)) ELSE {} : r \in Runs}

\* C18: a run only issues remove calls for product ids returned by its own
\* member listing and add calls for product ids in its own recent-products
\* list; with no other writer the membership is, at every point during and
\* after a run, a subset of (initial membership) union set(R).
C18_OnlyListedProducts ==
    /\ \A r \in Runs :
          /\ \A k \in DOMAIN CallsOp(r, "remove") :
                HasListing(r) /\ CallsOp(r, "remove")[k].id \in Ids(Listing(r))
          /\ \A k \in DOMAIN CallsOp(r, "add") :
                HasRecent(r) /\ CallsOp(r, "add")[k].id \in Ids(Recent(r))
    /\ members \subseteq initial_members \cup AllRecent

\* a run added only product 2 to a collection that held nothing, and product 1
\* is no member
C18_Witness ==
    /\ Exited(1) /\ HasRecent(1) /\ Ids(Recent(1)) = {2}
    /\ initial_members = {}
    /\ Successes(CallsOp(1, "add")) = 1
    /\ members = {2}

\* C19: if two overlapping runs obtain the same non-empty recent-products list
\* R, every member listing returns the full current membership, every remove
\* call on a current member removes it and every add call leaves its product a
\* member, then under every interleaving the membership after both runs have
\* finished equals set(R).
C19_SameListConverges ==
    (/\ \A r \in Runs : Exited(r) /\ HasRecent(r)
     /\ Recent(1) = Recent(2)
     /\ Len(Recent(1)) > 0)
    => members = Ids(Recent(1))

\* both runs ended with the same list, the collection started with a member
\* outside it, and a write of run 2 fell between two writes of run 1
C19_Witness ==
    /\ \A r \in Runs : Exited(r) /\ HasRecent(r)
    /\ Recent(1) = Recent(2) /\ Len(Recent(1)) > 0
    /\ initial_members \ Ids(Recent(1)) # {}
    /\ \E a, c \in Writes(1) : \E b \in Writes(2) : a < b /\ b < c
    /\ members = Ids(Recent(1))
====
